---- MODULE Spec2Model ----
(***************************************************************************)
(* A model of bridge.py: the XiaozhiMCPBridge session loop (run, stop,     *)
(* _handle_session), its JSON-RPC dispatch (_dispatch and the handlers)    *)
(* and the webhook round trip of a tools/call.                             *)
(*                                                                         *)
(* One asyncio task runs run(); pc is the await at which that task is      *)
(* suspended.  Everything the code does between two awaits is one action.  *)
(* stop() and task.cancel() are calls made by the task's owner             *)
(* (_run_bridge) and can arrive at any await.                              *)
(***************************************************************************)
EXTENDS Integers, Sequences, FiniteSets

(***************************************************************************)
(* Bounds of the model.                                                    *)
(***************************************************************************)
\* successful connections in one execution
MaxSessions == 2
\* frames read in one execution
MaxFrames == 2
\* delays remembered in the history of waits since the last connection
MaxWaits == 7
\* a configured --reconnect-delay above the ceiling
LargeDelay == 100

(***************************************************************************)
(* Program constants.                                                      *)
(***************************************************************************)
DefaultReconnectDelay == 5
BackoffCeiling == 60
MethodNotFound == -32601
InvalidParams == -32602
WebhookHttpError == -32010
WebhookFailure == -32001

(***************************************************************************)
(* JSON values.  Text is a sequence of characters, so that str.strip() is  *)
(* computed and not assumed.                                               *)
(***************************************************************************)
JNull == [t |-> "null"]
\* a key that the object does not hold (dict.get with a default tells it from null)
JAbsent == [t |-> "absent"]
JStr(s) == [t |-> "str", s |-> s]
JNum(n) == [t |-> "num", n |-> n]
JObj(k) == [t |-> "obj", k |-> k]

IsStr(v) == v.t = "str"
\* isinstance(v, Mapping)
IsMapping(v) == v.t = "obj"

\* Python truth value of a JSON value (x or {}, if call_id:)
Truthy(v) ==
    CASE v.t \in {"null", "absent"} -> FALSE
      [] v.t = "num" -> v.n # 0
      [] v.t = "str" -> v.s # <<>>
      [] OTHER -> TRUE

IsSpace(c) == c \in {" ", "\n", "\t"}

RECURSIVE LStrip(_)
LStrip(s) == IF s # <<>> /\ IsSpace(Head(s)) THEN LStrip(Tail(s)) ELSE s

RECURSIVE RStrip(_)
RStrip(s) ==
    IF s # <<>> /\ IsSpace(s[Len(s)]) THEN RStrip(SubSeq(s, 1, Len(s) - 1)) ELSE s

\* str.strip()
Strip(s) == RStrip(LStrip(s))

Min(a, b) == IF a <= b THEN a ELSE b

(***************************************************************************)
(* The configured tool (ToolSpec.name) and the inbound frames.             *)
(***************************************************************************)
ToolName == <<"g">>

Ids == {JNull, JNum(1), JStr(<<"a">>)}

Methods ==
    {"initialize", "notifications/initialized", "tools/list", "tools/call",
     "ping", "shutdown", "foo/bar", "None"}

ActionValues == {JStr(<<"s">>), JStr(<<>>), JStr(<<" ">>), JNum(5), JNull}
PayloadValues == {JObj("payload"), JNum(3), JNull}
CallIds == {JNull, JStr(<<"c">>), JNum(0)}
NameValues == {JStr(ToolName), JStr(<<"x">>), JNull}

\* params.arguments: absent, not an object, or an object with action and payload
ArgumentValues ==
    {JNull, JNum(1)}
      \cup {[t |-> "obj", action |-> a, payload |-> p] :
              a \in ActionValues, p \in PayloadValues}

\* params of a tools/call: absent, a truthy non-object, or an object
CallParams ==
    {JNull, JNum(1)}
      \cup {[t |-> "obj", name |-> n, arguments |-> a, callId |-> c,
             protocolVersion |-> JAbsent] :
              n \in NameValues, a \in ArgumentValues, c \in CallIds}

\* params of the other methods
OtherParams ==
    {JNull, JNum(1)}
      \cup {[t |-> "obj", name |-> JNull, arguments |-> JNull, callId |-> JNull,
             protocolVersion |-> v] : v \in {JAbsent, JStr(<<"v">>)}}

ObjectFrames ==
    {[kind |-> "object", method |-> m, id |-> i, params |-> p] :
       m \in Methods \ {"tools/call"}, i \in Ids, p \in OtherParams}
      \cup {[kind |-> "object", method |-> "tools/call", id |-> i, params |-> p] :
              i \in Ids, p \in CallParams}

\* bytes that are not UTF-8, text that is not JSON, JSON that is not an object
MalformedKinds == {"bad_utf8", "bad_json", "non_object"}

MalformedFrames ==
    {[kind |-> k, method |-> "None", id |-> JNull, params |-> JNull] :
       k \in MalformedKinds}

Frames == ObjectFrames \cup MalformedFrames

NoFrame == [kind |-> "none", method |-> "None", id |-> JNull, params |-> JNull]

\* the configured --reconnect-delay values explored
Bases == {DefaultReconnectDelay, LargeDelay}

(***************************************************************************)
(* The webhook: the HTTP responses explored and _post_to_webhook.          *)
(***************************************************************************)
JList(items) == [t |-> "list", items |-> items]
\* a response body that is not JSON: response.text
RawText(s) == [t |-> "text", s |-> s]
Item(output) == [t |-> "obj", output |-> output]

ResponseBodies ==
    {[t |-> "obj", message |-> JStr(<<"h", "i">>)],
     [t |-> "obj", message |-> JStr(<<" ">>)],
     [t |-> "obj", message |-> JNull],
     JList(<<Item(JStr(<<"a">>)), Item(JNum(1)), Item(JStr(<<"b", " ">>))>>),
     JList(<<Item(JNull)>>),
     JNum(7),
     RawText(<<"o", "k">>)}

\* what the HTTP client's post() ends with: a response, or an exception
\* (network error, timeout)
PostResults ==
    {[kind |-> "response", status |-> 200, body |-> b] : b \in ResponseBodies}
      \cup {[kind |-> "response", status |-> 500,
             body |-> RawText(<<"b", "o", "o", "m">>)],
            [kind |-> "exception", status |-> 0, body |-> JNull]}

\* a variant without raise_for_status(): an error status is returned as a body
PostToWebhookAnyStatus(r) ==
    IF r.kind = "exception"
    THEN [kind |-> "failure", status |-> 0, data |-> JNull]
    ELSE [kind |-> "ok", status |-> r.status, data |-> r.body]

\* _post_to_webhook after the await: raise_for_status(), then json() or text
PostToWebhook(r) ==
    IF r.kind = "exception"
    THEN [kind |-> "failure", status |-> 0, data |-> JNull]
    ELSE IF r.status >= 400
         THEN [kind |-> "http_status", status |-> r.status, data |-> r.body]
         ELSE [kind |-> "ok", status |-> r.status, data |-> r.body]

\* the outcome of _post_to_webhook when no client is set (RuntimeError)
ClientNotReady == [kind |-> "failure", status |-> 0, data |-> JNull]

(***************************************************************************)
(* _format_webhook_response.  A display text is a character sequence, or   *)
(* the json.dumps / str() image of a value, kept as a tagged value.        *)
(***************************************************************************)
Text(s) == [how |-> "text", s |-> s, of |-> JNull]
Dumps(d) == [how |-> "json.dumps", s |-> <<>>, of |-> d]
StrOf(d) == IF d.t \in {"str", "text"} THEN Text(d.s) ELSE [how |-> "str", s |-> <<>>, of |-> d]

RECURSIVE Outputs(_)
Outputs(items) ==
    IF items = <<>> THEN <<>>
    ELSE LET item == Head(items)
             keep == IsMapping(item) /\ IsStr(item.output)
                       /\ Strip(item.output.s) # <<>>
         IN  (IF keep THEN <<Strip(item.output.s)>> ELSE <<>>) \o Outputs(Tail(items))

RECURSIVE Join(_, _)
Join(sep, parts) ==
    IF Len(parts) = 1 THEN Head(parts)
    ELSE Head(parts) \o sep \o Join(sep, Tail(parts))

\* a formatter that joins the outputs with one newline instead of a blank line
FormatWebhookResponseOneNewline(data) ==
    IF IsMapping(data)
    THEN IF IsStr(data.message) /\ Strip(data.message.s) # <<>>
         THEN Text(data.message.s)
         ELSE Dumps(data)
    ELSE IF data.t = "list"
         THEN IF Outputs(data.items) # <<>>
              THEN Text(Join(<<"\n">>, Outputs(data.items)))
              ELSE Dumps(data)
         ELSE StrOf(data)

FormatWebhookResponse(data) ==
    IF IsMapping(data)
    THEN IF IsStr(data.message) /\ Strip(data.message.s) # <<>>
         THEN Text(data.message.s)
         ELSE Dumps(data)
    ELSE IF data.t = "list"
         THEN IF Outputs(data.items) # <<>>
              THEN Text(Join(<<"\n", "\n">>, Outputs(data.items)))
              ELSE Dumps(data)
         ELSE StrOf(data)

(***************************************************************************)
(* Outbound messages and what a handler does up to its next await.         *)
(***************************************************************************)
NoBody == [message |-> "", arg |-> JNull]
NoReply == [id |-> JNull, kind |-> "none", code |-> 0, body |-> NoBody]
ErrorReply(id, code, message, arg) ==
    [id |-> id, kind |-> "error", code |-> code,
     body |-> [message |-> message, arg |-> arg]]
ResultReply(id, result) == [id |-> id, kind |-> "result", code |-> 0, body |-> result]

NoPayload == [action |-> JNull, payload |-> JNull, call_id |-> JNull, tool |-> JNull,
              arguments |-> JNull]

\* await self._send_json(ws, reply), and self.stop() after it when then_stop
SendStep(reply, then_stop) ==
    [act |-> "send", reply |-> reply, then_stop |-> then_stop, payload |-> NoPayload]
\* the handler returns without sending
ReturnStep == [act |-> "return", reply |-> NoReply, then_stop |-> FALSE, payload |-> NoPayload]
\* the handler raises (AttributeError: a value without .get)
RaiseStep == [act |-> "raise", reply |-> NoReply, then_stop |-> FALSE, payload |-> NoPayload]
\* a handler that starts the request and returns without awaiting it
PostStepNotAwaited(payload) ==
    [act |-> "return", reply |-> NoReply, then_stop |-> FALSE, payload |-> payload]

\* await self._post_to_webhook(payload)
PostStep(payload) ==
    [act |-> "post", reply |-> NoReply, then_stop |-> FALSE, payload |-> payload]

EmptyParams ==
    [t |-> "obj", name |-> JNull, arguments |-> JNull, callId |-> JNull,
     protocolVersion |-> JAbsent]

\* message.get("params") or {}
ParamsOf(m) == IF Truthy(m.params) THEN m.params ELSE EmptyParams

DefaultProtocolVersion == JStr(<<"2", "0", "2", "4">>)

HandleInitialize(m) ==
    LET params == ParamsOf(m) IN
    IF ~IsMapping(params) THEN RaiseStep
    ELSE LET requested_version ==
                 IF params.protocolVersion = JAbsent THEN DefaultProtocolVersion
                 ELSE params.protocolVersion
         IN  SendStep(ResultReply(m.id, [protocolVersion |-> requested_version,
                                         capabilities |-> "tools.call"]), FALSE)

HandleToolsList(m) ==
    SendStep(ResultReply(m.id, [tools |-> <<ToolName>>]), FALSE)

\* a variant that tests the arguments before the tool name
HandleToolsCallArgumentsFirst(m) ==
    LET params == ParamsOf(m) IN
    IF ~IsMapping(params) THEN RaiseStep
    ELSE LET tool_name == params.name
             arguments == params.arguments
             call_id == params.callId
         IN  IF ~IsMapping(arguments)
             THEN SendStep(ErrorReply(m.id, InvalidParams,
                                      "Tool arguments must be an object", JNull), FALSE)
             ELSE IF tool_name # JStr(ToolName)
             THEN SendStep(ErrorReply(m.id, InvalidParams, "Unsupported tool", tool_name),
                           FALSE)
             ELSE IF ~IsStr(arguments.action) \/ Strip(arguments.action.s) = <<>>
             THEN SendStep(ErrorReply(m.id, InvalidParams,
                                      "Tool arguments must include non-empty 'action'",
                                      JNull), FALSE)
             ELSE PostStep([action |-> arguments.action,
                            payload |-> IF IsMapping(arguments.payload)
                                        THEN arguments.payload ELSE JNull,
                            call_id |-> call_id,
                            tool |-> tool_name,
                            arguments |-> arguments])

\* a handler that accepts a blank action (line 227 without the strip test)
HandleToolsCallPostsBlankAction(m) ==
    LET params == ParamsOf(m) IN
    IF ~IsMapping(params) THEN RaiseStep
    ELSE LET tool_name == params.name
             arguments == params.arguments
             call_id == params.callId
         IN  IF tool_name # JStr(ToolName)
             THEN SendStep(ErrorReply(m.id, InvalidParams, "Unsupported tool", tool_name),
                           FALSE)
             ELSE IF ~IsMapping(arguments)
             THEN SendStep(ErrorReply(m.id, InvalidParams,
                                      "Tool arguments must be an object", JNull), FALSE)
             ELSE IF ~IsStr(arguments.action)
             THEN SendStep(ErrorReply(m.id, InvalidParams,
                                      "Tool arguments must include non-empty 'action'",
                                      JNull), FALSE)
             ELSE PostStep([action |-> arguments.action,
                            payload |-> IF IsMapping(arguments.payload)
                                        THEN arguments.payload ELSE JNull,
                            call_id |-> call_id,
                            tool |-> tool_name,
                            arguments |-> arguments])

\* _handle_tools_call up to the webhook await
HandleToolsCall(m) ==
    LET params == ParamsOf(m) IN
    IF ~IsMapping(params) THEN RaiseStep
    ELSE LET tool_name == params.name
             arguments == params.arguments
             call_id == params.callId
         IN  IF tool_name # JStr(ToolName)
             THEN SendStep(ErrorReply(m.id, InvalidParams, "Unsupported tool", tool_name),
                           FALSE)
             ELSE IF ~IsMapping(arguments)
             THEN SendStep(ErrorReply(m.id, InvalidParams,
                                      "Tool arguments must be an object", JNull), FALSE)
             ELSE IF ~IsStr(arguments.action) \/ Strip(arguments.action.s) = <<>>
             THEN SendStep(ErrorReply(m.id, InvalidParams,
                                      "Tool arguments must include non-empty 'action'",
                                      JNull), FALSE)
             ELSE PostStep([action |-> arguments.action,
                            payload |-> IF IsMapping(arguments.payload)
                                        THEN arguments.payload ELSE JNull,
                            call_id |-> call_id,
                            tool |-> tool_name,
                            arguments |-> arguments])

\* a variant that answers a failed webhook call under the callId
ToolsCallReplyUnderCallId(m, outcome) ==
    LET call_id == ParamsOf(m).callId IN
    IF outcome.kind = "http_status"
    THEN ErrorReply(call_id, WebhookHttpError, "Gmail webhook returned HTTP",
                    [status |-> outcome.status, body_preview |-> outcome.data])
    ELSE IF outcome.kind = "failure"
    THEN ErrorReply(call_id, WebhookFailure, "Gmail agent error", JNull)
    ELSE ResultReply(m.id,
                     [text |-> FormatWebhookResponse(outcome.data),
                      isError |-> FALSE,
                      callId |-> IF Truthy(call_id) THEN call_id ELSE JAbsent])

\* _handle_tools_call from the webhook outcome on
ToolsCallReply(m, outcome) ==
    LET call_id == ParamsOf(m).callId IN
    IF outcome.kind = "http_status"
    THEN ErrorReply(m.id, WebhookHttpError, "Gmail webhook returned HTTP",
                    [status |-> outcome.status, body_preview |-> outcome.data])
    ELSE IF outcome.kind = "failure"
    THEN ErrorReply(m.id, WebhookFailure, "Gmail agent error", JNull)
    ELSE ResultReply(m.id,
                     [text |-> FormatWebhookResponse(outcome.data),
                      isError |-> FALSE,
                      callId |-> IF Truthy(call_id) THEN call_id ELSE JAbsent])

\* a dispatcher whose final branch answers without testing the id (lines 150-162
\* without line 150)
DispatchAnswersWithoutId(m) ==
    IF m.kind # "object" THEN RaiseStep
    ELSE IF m.method = "initialize" THEN HandleInitialize(m)
    ELSE IF m.method = "notifications/initialized" THEN ReturnStep
    ELSE IF m.method = "tools/list" THEN HandleToolsList(m)
    ELSE IF m.method = "tools/call" THEN HandleToolsCall(m)
    ELSE IF m.method = "ping" THEN SendStep(ResultReply(m.id, [empty |-> TRUE]), FALSE)
    ELSE IF m.method = "shutdown" THEN SendStep(ResultReply(m.id, [empty |-> TRUE]), TRUE)
    ELSE SendStep(ErrorReply(m.id, MethodNotFound, "Method not implemented", m.method),
                  FALSE)

\* a dispatcher whose shutdown branch replies and does not call stop() (lines
\* 145-148 without line 147)
DispatchShutdownKeepsRunning(m) ==
    IF m.kind # "object" THEN RaiseStep
    ELSE IF m.method = "initialize" THEN HandleInitialize(m)
    ELSE IF m.method = "notifications/initialized" THEN ReturnStep
    ELSE IF m.method = "tools/list" THEN HandleToolsList(m)
    ELSE IF m.method = "tools/call" THEN HandleToolsCall(m)
    ELSE IF m.method = "ping" THEN SendStep(ResultReply(m.id, [empty |-> TRUE]), FALSE)
    ELSE IF m.method = "shutdown" THEN SendStep(ResultReply(m.id, [empty |-> TRUE]), FALSE)
    ELSE IF m.id # JNull
         THEN SendStep(ErrorReply(m.id, MethodNotFound, "Method not implemented",
                                  m.method), FALSE)
         ELSE ReturnStep

\* _dispatch of a parsed message, up to the first await
Dispatch(m) ==
    IF m.kind # "object" THEN RaiseStep
    ELSE IF m.method = "initialize" THEN HandleInitialize(m)
    ELSE IF m.method = "notifications/initialized" THEN ReturnStep
    ELSE IF m.method = "tools/list" THEN HandleToolsList(m)
    ELSE IF m.method = "tools/call" THEN HandleToolsCall(m)
    ELSE IF m.method = "ping" THEN SendStep(ResultReply(m.id, [empty |-> TRUE]), FALSE)
    ELSE IF m.method = "shutdown" THEN SendStep(ResultReply(m.id, [empty |-> TRUE]), TRUE)
    ELSE IF m.id # JNull
         THEN SendStep(ErrorReply(m.id, MethodNotFound, "Method not implemented",
                                  m.method), FALSE)
         ELSE ReturnStep

(***************************************************************************)
(* State.                                                                  *)
(***************************************************************************)
VARIABLES
    pc,               \* where the run() task is: "start", an await, or an end
    stopping,         \* self._stopping
    http_client,      \* self._http_client: "none", "open" or "closed"
    reconnect_delay,  \* self.reconnect_delay
    backoff,          \* run()'s local backoff
    ws_open,          \* a WebSocket connection is open (inside async with ws)
    message,          \* the frame _handle_session read last in this iteration
    sending,          \* the reply handed to ws.send, and whether stop() follows
    posted,           \* the payload of the webhook request in flight
    inflight,         \* webhook requests sent and not yet ended
    cancelled,        \* history: bridge_task.cancel() was called on the running task
    afterStop,        \* history: frames read while the stopping flag was set
    response,         \* history: what the HTTP post for message ended with
    connects,         \* history: successful connections so far
    frames,           \* history: frames read so far
    waited,           \* history: delays slept since the last successful connection
    lastEnd,          \* history: how the last connection attempt or cycle ended,
                      \* or "waited" once a backoff sleep has followed it
    done,             \* history: how the handling of message ended
    nsent,            \* history: _send_json calls completed for message
    nposts,           \* history: webhook requests made for message
    lastSent,         \* history: the last outbound message of this session
    outbox            \* history: for each outbound message of this session, the
                      \* position of the frame that caused it

vars ==
    <<pc, stopping, http_client, reconnect_delay, backoff, ws_open, message, sending,
      posted, inflight, cancelled, afterStop, response, connects, frames, waited, lastEnd,
      done, nsent, nposts, lastSent, outbox>>

NoSend == [reply |-> NoReply, then_stop |-> FALSE]
NoResponse == [kind |-> "none", status |-> 0, body |-> JNull]

\* the awaits of run() and of what it calls
Awaits == {"connecting", "recv", "webhook", "sending", "closing", "sleeping"}

Init ==
    /\ pc = "start"
    /\ stopping = FALSE
    /\ http_client = "none"
    /\ reconnect_delay \in Bases
    /\ backoff = 0
    /\ ws_open = FALSE
    /\ message = NoFrame
    /\ sending = NoSend
    /\ posted = NoPayload
    /\ inflight = 0
    /\ cancelled = FALSE
    /\ afterStop = 0
    /\ response = NoResponse
    /\ connects = 0
    /\ frames = 0
    /\ waited = <<>>
    /\ lastEnd = "none"
    /\ done = "none"
    /\ nsent = 0
    /\ nposts = 0
    /\ lastSent = NoReply
    /\ outbox = <<>>

(***************************************************************************)
(* run(): the client scope, the reconnect loop and the backoff.            *)
(***************************************************************************)
\* a variant that doubles without the ceiling
NextBackoffUncapped(b) == b * 2

\* backoff = min(backoff * 2, 60)
NextBackoff(b) == Min(b * 2, BackoffCeiling)

\* await asyncio.sleep(backoff) begins: the except Exception handler of run()
EnterBackoff ==
    /\ pc' = "sleeping"
    /\ ws_open' = FALSE
    /\ waited' = IF Len(waited) < MaxWaits THEN Append(waited, backoff) ELSE waited

\* run() is called: the HTTP client is entered and backoff takes the base delay
RunStart ==
    /\ pc = "start"
    /\ pc' = "run_loop"
    /\ http_client' = "open"
    /\ backoff' = reconnect_delay
    /\ UNCHANGED <<stopping, reconnect_delay, cancelled, inflight, afterStop, ws_open,
                   message, sending, posted, response, connects, frames, waited, lastEnd,
                   done, nsent, nposts, lastSent, outbox>>

\* a variant whose loop tests the flag only before the first attempt
RunLoopTestsOnce ==
    /\ pc = "run_loop"
    /\ IF stopping /\ lastEnd = "none" /\ connects = 0
       THEN pc' = "returned" /\ http_client' = "closed"
       ELSE pc' = "connecting" /\ UNCHANGED http_client
    /\ message' = NoFrame
    /\ done' = "none"
    /\ nsent' = 0
    /\ nposts' = 0
    /\ lastSent' = NoReply
    /\ response' = NoResponse
    /\ outbox' = <<>>
    /\ UNCHANGED <<stopping, reconnect_delay, cancelled, inflight, afterStop, backoff,
                   ws_open, sending, posted, connects, frames, waited, lastEnd>>

\* a run loop that returns without leaving the `async with` of the client
RunLoopKeepsClient ==
    /\ pc = "run_loop"
    /\ pc' = IF stopping THEN "returned" ELSE "connecting"
    /\ message' = NoFrame
    /\ done' = "none"
    /\ nsent' = 0
    /\ nposts' = 0
    /\ lastSent' = NoReply
    /\ response' = NoResponse
    /\ outbox' = <<>>
    /\ UNCHANGED <<stopping, http_client, reconnect_delay, cancelled, inflight, afterStop,
                   backoff, ws_open, sending, posted, connects, frames, waited, lastEnd>>

\* while not self._stopping.is_set(): websockets.connect(...) begins, or run()
\* leaves the client scope and returns
RunLoop ==
    /\ pc = "run_loop"
    /\ IF stopping
       THEN pc' = "returned" /\ http_client' = "closed"
       ELSE pc' = "connecting" /\ UNCHANGED http_client
    /\ message' = NoFrame
    /\ done' = "none"
    /\ nsent' = 0
    /\ nposts' = 0
    /\ lastSent' = NoReply
    /\ response' = NoResponse
    /\ outbox' = <<>>
    /\ UNCHANGED <<stopping, reconnect_delay, cancelled, inflight, afterStop, backoff,
                   ws_open, sending, posted, connects, frames, waited, lastEnd>>

\* the connection is established: backoff is reset and _handle_session starts
ConnectOk ==
    /\ pc = "connecting"
    /\ connects < MaxSessions
    /\ connects' = connects + 1
    /\ ws_open' = TRUE
    /\ backoff' = reconnect_delay
    /\ waited' = <<>>
    /\ lastEnd' = "none"
    /\ pc' = "session_loop"
    /\ outbox' = <<>>
    /\ UNCHANGED <<stopping, http_client, reconnect_delay, cancelled, inflight, afterStop,
                   message, sending, posted, response, frames, done, nsent, nposts,
                   lastSent>>

\* a session loop that does not test the flag (line 106 as `while True`)
SessionLoopIgnoresStop ==
    /\ pc = "session_loop"
    /\ pc' = "recv"
    /\ message' = NoFrame
    /\ done' = "none"
    /\ nsent' = 0
    /\ nposts' = 0
    /\ lastSent' = NoReply
    /\ response' = NoResponse
    /\ UNCHANGED <<stopping, http_client, reconnect_delay, cancelled, inflight, afterStop,
                   backoff, ws_open, sending, posted, connects, frames, waited, outbox,
                   lastEnd>>

\* while not self._stopping.is_set() of _handle_session: the next ws.recv()
\* begins, or _handle_session returns and async with ws closes the connection
SessionLoop ==
    /\ pc = "session_loop"
    /\ pc' = IF stopping THEN "closing" ELSE "recv"
    /\ lastEnd' = IF stopping THEN "stop" ELSE lastEnd
    /\ message' = NoFrame
    /\ done' = "none"
    /\ nsent' = 0
    /\ nposts' = 0
    /\ lastSent' = NoReply
    /\ response' = NoResponse
    /\ UNCHANGED <<stopping, http_client, reconnect_delay, cancelled, inflight, afterStop,
                   backoff, ws_open, sending, posted, connects, frames, waited, outbox>>

\* websockets.connect raises
ConnectFail ==
    /\ pc = "connecting"
    /\ EnterBackoff
    /\ lastEnd' = "connect_failed"
    /\ UNCHANGED <<stopping, http_client, reconnect_delay, cancelled, inflight, afterStop,
                   backoff, message, sending, posted, response, connects, frames, done,
                   nsent, nposts, lastSent, outbox>>

\* the sleep ends: the delay doubles up to the ceiling
SleepDone ==
    /\ pc = "sleeping"
    /\ backoff' = NextBackoff(backoff)
    /\ pc' = "run_loop"
    /\ lastEnd' = "waited"
    /\ UNCHANGED <<stopping, http_client, reconnect_delay, cancelled, inflight, afterStop,
                   ws_open, message, sending, posted, response, connects, frames, waited,
                   done, nsent, nposts, lastSent, outbox>>

\* async with ws is left after _handle_session returned
CloseDone ==
    /\ pc = "closing"
    /\ ws_open' = FALSE
    /\ pc' = "run_loop"
    /\ UNCHANGED <<stopping, http_client, reconnect_delay, cancelled, inflight, afterStop,
                   backoff, message, sending, posted, response, connects, frames, waited,
                   lastEnd, done, nsent, nposts, lastSent, outbox>>

\* the places where another coroutine can run: the task is suspended at an
\* await, has not started, or has ended
Suspended == pc \in Awaits \cup {"start", "returned", "cancelled"}

\* stop(): self._stopping.set()
Stop ==
    /\ Suspended
    /\ stopping' = TRUE
    /\ UNCHANGED <<pc, http_client, reconnect_delay, cancelled, inflight, afterStop,
                   backoff, ws_open, message, sending, posted, response, connects, frames,
                   waited, lastEnd, done, nsent, nposts, lastSent, outbox>>

\* a run() whose generic handler also catches the cancellation (lines 96-99
\* without lines 94-95): the session is dropped and the backoff wait begins
CancelCaughtByRetry ==
    /\ pc \in Awaits
    /\ EnterBackoff
    /\ lastEnd' = "exception"
    /\ cancelled' = TRUE
    /\ inflight' = 0
    /\ done' = IF done = "handling" THEN "cancelled" ELSE done
    /\ UNCHANGED <<stopping, http_client, reconnect_delay, afterStop, backoff, message,
                   sending, posted, response, connects, frames, nsent, nposts, lastSent,
                   outbox>>

\* bridge_task.cancel(): CancelledError is raised at the await and leaves run()
Cancel ==
    /\ pc \in Awaits
    /\ pc' = "cancelled"
    /\ ws_open' = FALSE
    /\ http_client' = "closed"
    /\ cancelled' = TRUE
    /\ inflight' = 0
    /\ done' = IF done = "handling" THEN "cancelled" ELSE done
    /\ UNCHANGED <<stopping, reconnect_delay, afterStop, backoff, message, sending, posted,
                   response, connects, frames, waited, lastEnd, nsent, nposts, lastSent,
                   outbox>>

(***************************************************************************)
(* _handle_session: one frame is read and handled up to the next await.    *)
(***************************************************************************)
\* the frame is logged and dropped: continue
DiscardStep == [act |-> "discard", reply |-> NoReply, then_stop |-> FALSE, payload |-> NoPayload]

\* lines 115-128 for a frame f, and _post_to_webhook's check of the client
HandleFrame(f, client) ==
    IF f.kind \in {"bad_utf8", "bad_json"} THEN DiscardStep
    ELSE LET d == Dispatch(f) IN
         IF d.act = "post" /\ client = "none"
         THEN SendStep(ToolsCallReply(f, ClientNotReady), FALSE)
         ELSE d

\* ws.recv() returns a frame
RecvFrame(f) ==
    /\ pc = "recv"
    /\ frames < MaxFrames
    /\ frames' = frames + 1
    /\ message' = f
    /\ nsent' = 0
    /\ afterStop' = afterStop + (IF stopping THEN 1 ELSE 0)
    /\ LET step == HandleFrame(f, http_client) IN
       /\ nposts' = IF step.payload # NoPayload THEN 1 ELSE 0
       /\ inflight' = inflight + (IF step.payload # NoPayload THEN 1 ELSE 0)
       /\ posted' = step.payload
       /\ response' = NoResponse
       /\ sending' = IF step.act = "send"
                     THEN [reply |-> step.reply, then_stop |-> step.then_stop]
                     ELSE NoSend
       /\ done' = CASE step.act = "discard" -> "discarded"
                    [] step.act = "return" -> "returned"
                    [] step.act = "raise" -> "raised"
                    [] OTHER -> "handling"
       /\ IF step.act = "raise"
          THEN EnterBackoff /\ lastEnd' = "exception"
          ELSE /\ pc' = CASE step.act = "send" -> "sending"
                          [] step.act = "post" -> "webhook"
                          [] OTHER -> "session_loop"
               /\ UNCHANGED <<ws_open, waited, lastEnd>>
    /\ UNCHANGED <<stopping, http_client, reconnect_delay, cancelled, backoff, connects,
                   lastSent, outbox>>

\* ws.recv() raises ConnectionClosedOK: _handle_session returns
RecvClosedOK ==
    /\ pc = "recv"
    /\ pc' = "closing"
    /\ lastEnd' = "clean"
    /\ UNCHANGED <<stopping, http_client, reconnect_delay, cancelled, inflight, afterStop,
                   backoff, ws_open, message, sending, posted, response, connects, frames,
                   waited, done, nsent, nposts, lastSent, outbox>>

\* ws.recv() raises ConnectionClosedError: _handle_session logs and returns
RecvClosedError ==
    /\ pc = "recv"
    /\ pc' = "closing"
    /\ lastEnd' = "error_close"
    /\ UNCHANGED <<stopping, http_client, reconnect_delay, cancelled, inflight, afterStop,
                   backoff, ws_open, message, sending, posted, response, connects, frames,
                   waited, done, nsent, nposts, lastSent, outbox>>

\* the HTTP post ends: the reply is built and handed to _send_json
WebhookReturns(r) ==
    /\ pc = "webhook"
    /\ sending' = [reply |-> ToolsCallReply(message, PostToWebhook(r)),
                   then_stop |-> FALSE]
    /\ posted' = NoPayload
    /\ inflight' = inflight - 1
    /\ response' = r
    /\ pc' = "sending"
    /\ UNCHANGED <<stopping, http_client, reconnect_delay, cancelled, afterStop, backoff,
                   ws_open, message, connects, frames, waited, lastEnd, done, nsent, nposts,
                   lastSent, outbox>>

\* a writer that puts each reply in front of the ones already written
SendOkNewestFirst ==
    /\ pc = "sending"
    /\ nsent' = nsent + 1
    /\ lastSent' = sending.reply
    /\ outbox' = <<frames>> \o outbox
    /\ stopping' = (stopping \/ sending.then_stop)
    /\ done' = "returned"
    /\ sending' = NoSend
    /\ pc' = "session_loop"
    /\ UNCHANGED <<http_client, reconnect_delay, cancelled, inflight, afterStop, backoff,
                   ws_open, message, posted, response, connects, frames, waited, lastEnd,
                   nposts>>

\* ws.send returns: the handler finishes (stop() after a shutdown reply)
SendOk ==
    /\ pc = "sending"
    /\ nsent' = nsent + 1
    /\ lastSent' = sending.reply
    /\ outbox' = Append(outbox, frames)
    /\ stopping' = (stopping \/ sending.then_stop)
    /\ done' = "returned"
    /\ sending' = NoSend
    /\ pc' = "session_loop"
    /\ UNCHANGED <<http_client, reconnect_delay, cancelled, inflight, afterStop, backoff,
                   ws_open, message, posted, response, connects, frames, waited, lastEnd,
                   nposts>>

\* ws.send raises ConnectionClosed: the exception reaches run()'s handler
SendFail ==
    /\ pc = "sending"
    /\ sending' = NoSend
    /\ done' = "send_failed"
    /\ EnterBackoff
    /\ lastEnd' = "exception"
    /\ UNCHANGED <<stopping, http_client, reconnect_delay, cancelled, inflight, afterStop,
                   backoff, message, posted, response, connects, frames, nsent, nposts,
                   lastSent, outbox>>

(***************************************************************************)
(* Specifications.                                                         *)
(***************************************************************************)
Next ==
    \/ RunStart
    \/ RunLoop
    \/ ConnectOk
    \/ SessionLoop
    \/ ConnectFail
    \/ SleepDone
    \/ CloseDone
    \/ \E f \in Frames : RecvFrame(f)
    \/ RecvClosedOK
    \/ RecvClosedError
    \/ \E r \in PostResults : WebhookReturns(r)
    \/ SendOk
    \/ SendFail
    \/ Stop
    \/ Cancel

Spec == Init /\ [][Next]_vars

\* The steps that end by themselves: run() is started by its owner, a connect,
\* a post and a send end (with a result or an error), a sleep and a close end.
\* Nothing makes the peer send a frame or close, or the owner stop or cancel.
Progress ==
    \/ RunStart
    \/ RunLoop
    \/ ConnectOk
    \/ SessionLoop
    \/ ConnectFail
    \/ SleepDone
    \/ CloseDone
    \/ \E r \in PostResults : WebhookReturns(r)
    \/ SendOk
    \/ SendFail

FairSpec == Spec /\ WF_vars(Progress)

(***************************************************************************)
(* The claims.                                                             *)
(***************************************************************************)
\* the handling of message has ended by the handler returning or raising (a
\* reply that the transport refused, and a cancelled task, are neither)
Handled == done \in {"returned", "raised", "discarded"}

\* a message with a non-null id that is not the initialized notification
IsRequest(m) ==
    m.kind = "object" /\ m.id # JNull /\ m.method # "notifications/initialized"

\* C1: every frame that carries a message with a non-null id and a method other
\* than notifications/initialized gets exactly one outbound message on its
\* session, for every method and every shape of params.
C1_ExactlyOneReply ==
    IsRequest(message) =>
        /\ nsent <= 1
        /\ Handled => (done = "returned" /\ nsent = 1)

\* a tools/call whose params.name is the configured tool name and whose
\* arguments.action is a non-empty string
IsNamedCallWithAction(m) ==
    /\ m.kind = "object"
    /\ m.method = "tools/call"
    /\ IsMapping(m.params)
    /\ m.params.name = JStr(ToolName)
    /\ IsMapping(m.params.arguments)
    /\ IsStr(m.params.arguments.action)
    /\ m.params.arguments.action.s # <<>>

\* C2: a tools/call with the configured tool name and a non-empty string action
\* produces exactly one outbound message, and that message carries the inbound
\* id, whatever the webhook call ended with.
C2_CallAnsweredOnceWithId ==
    IsNamedCallWithAction(message) =>
        /\ nsent <= 1
        /\ Handled =>
             /\ done = "returned"
             /\ nsent = 1
             /\ lastSent.kind \in {"result", "error"}
             /\ lastSent.id = message.id
             /\ outbox # <<>> /\ outbox[Len(outbox)] = frames

\* a call with a callId other than its id was answered after the webhook failed
C2_Witness ==
    /\ IsNamedCallWithAction(message)
    /\ done = "returned"
    /\ response.kind = "exception"
    /\ message.id = JNum(1)
    /\ message.params.callId = JStr(<<"c">>)
    /\ lastSent.id = JNum(1)

\* C3: no connection attempt begins in a state where the stopping flag is set.
C3_NoConnectAfterStop ==
    [][(pc # "connecting" /\ pc' = "connecting") => ~stopping]_vars

\* stop() arrived during a backoff sleep, and run() returned after the sleep
\* without connecting again
C3_Witness ==
    /\ pc = "returned"
    /\ stopping
    /\ lastEnd = "waited"

\* C4: once stop() has been invoked, run() eventually returns without
\* throwing, wherever the task was waiting when the stop arrived: a pending
\* ws.recv() or backoff sleep does not hold it.  (Executions in which the owner
\* also cancels the task end in "cancelled" and are not held against the claim.)
C4_StopLeadsToReturn == stopping ~> (pc \in {"returned", "cancelled"})

\* C5: a malformed frame (bytes that are not UTF-8, text that is not JSON, JSON
\* that is not an object) is discarded: nothing is sent for it, the connection
\* stays open, no backoff is entered and the receive loop goes on.
C5_MalformedDiscarded ==
    message.kind \in MalformedKinds =>
        /\ done = "discarded"
        /\ nsent = 0
        /\ sending = NoSend
        /\ ws_open
        /\ pc = "session_loop"

\* the delays of the claim: 5, 10, 20, 40, then 60 for ever
ClaimedDelay(i) == IF i <= 4 THEN <<5, 10, 20, 40>>[i] ELSE 60

\* C6: with base delay 5 the delays waited after consecutive failures are
\* 5, 10, 20, 40, 60, 60, 60, ... and a successful connection makes the next
\* delay waited 5 again.
C6_BackoffSequence ==
    reconnect_delay = 5 =>
        /\ \A i \in 1..Len(waited) : waited[i] = ClaimedDelay(i)
        /\ ws_open => backoff = 5

\* after a successful connection, six waits in a row
C6_Witness ==
    /\ reconnect_delay = 5
    /\ connects >= 1
    /\ Len(waited) >= 6
    /\ waited[6] = 60

\* C7: for every configured base delay, no delay waited before a retry
\* exceeds the ceiling of 60 seconds.
C7_WaitWithinCeiling ==
    /\ \A i \in 1..Len(waited) : waited[i] <= 60
    /\ pc = "sleeping" => backoff <= 60

\* C8: a cycle that ended with an error-indicating close is followed by a
\* backoff wait before the next connection attempt begins.
C8_ErrorCloseThenWait == ~(pc = "connecting" /\ lastEnd = "error_close")

\* a tools/call whose params are an object, or are absent
IsCall(m) ==
    m.kind = "object" /\ m.method = "tools/call" /\ IsMapping(ParamsOf(m))

WrongName(m) == ParamsOf(m).name # JStr(ToolName)
BadArguments(m) == ~IsMapping(ParamsOf(m).arguments)
BadAction(m) ==
    LET action == ParamsOf(m).arguments.action IN
    ~IsStr(action) \/ Strip(action.s) = <<>>

\* the tools/call passes the three checks
IsValidated(m) ==
    IsCall(m) /\ ~WrongName(m) /\ ~BadArguments(m) /\ ~BadAction(m)

\* the reply is the error with code -32602, the inbound id and this message
IsInvalidParams(text) ==
    /\ lastSent.kind = "error"
    /\ lastSent.code = -32602
    /\ lastSent.id = message.id
    /\ lastSent.body.message = text

\* C9: a tools/call that fails validation gets exactly one error reply with
\* code -32602 and the inbound id, chosen by the first failing check (tool
\* name, then arguments an object, then action a non-blank string), and no
\* webhook request is made for it; a payload that is not an object is not a
\* failure and is forwarded as absent.
C9_ValidationOrder ==
    /\ (IsCall(message) /\ ~IsValidated(message)) =>
         /\ nposts = 0 /\ pc # "webhook"
         /\ nsent <= 1
         /\ Handled =>
              /\ done = "returned" /\ nsent = 1
              /\ WrongName(message) =>
                   /\ IsInvalidParams("Unsupported tool")
                   /\ lastSent.body.arg = ParamsOf(message).name
              /\ (~WrongName(message) /\ BadArguments(message)) =>
                   IsInvalidParams("Tool arguments must be an object")
              /\ (~WrongName(message) /\ ~BadArguments(message)) =>
                   IsInvalidParams("Tool arguments must include non-empty 'action'")
    /\ (IsValidated(message) /\ ~IsMapping(message.params.arguments.payload)) =>
         /\ nposts = 1
         /\ pc = "webhook" => posted.payload = JNull
         /\ Handled => (done = "returned" /\ lastSent.code # -32602)

\* a call that fails the first and the second check was answered
C9_Witness ==
    /\ IsCall(message)
    /\ message.params # JNull
    /\ message.params.name = JStr(<<"x">>)
    /\ message.params.arguments = JNum(1)
    /\ message.id = JNum(1)
    /\ done = "returned"
    /\ lastSent.body.message = "Unsupported tool"

\* the reply that the claim gives for what the HTTP post ended with
ClaimedReply(r, reply) ==
    IF r.kind = "response" /\ r.status >= 400
    THEN reply.kind = "error" /\ reply.code = -32010
    ELSE IF r.kind = "exception"
    THEN reply.kind = "error" /\ reply.code = -32001
    ELSE reply.kind = "result" /\ reply.body.isError = FALSE

\* C10: the reply to a validated tools/call is the error -32010 after an HTTP
\* status error, the error -32001 after any other webhook failure and a result
\* with isError false after a success; in each case the connection stays open,
\* no backoff follows, and the receive loop reads the next frame (unless a stop
\* was requested in the meantime).
C10_ReplyByOutcome ==
    [][/\ (IsValidated(message) /\ done = "handling" /\ done' = "returned") =>
            /\ ClaimedReply(response, lastSent')
            /\ lastSent'.id = message.id
            /\ nsent' = 1
            /\ pc' = "session_loop"
            /\ ws_open'
            /\ waited' = waited /\ backoff' = backoff
       /\ (pc = "session_loop" /\ IsValidated(message) /\ ~stopping) =>
            (pc' = "recv" /\ ws_open')]_vars

\* a validated call was answered after the webhook returned HTTP 500, and the
\* receive loop is about to go on
C10_Witness ==
    /\ IsValidated(message)
    /\ done = "returned"
    /\ response.kind = "response" /\ response.status = 500
    /\ lastSent.code = -32010
    /\ pc = "session_loop"
    /\ ws_open
    /\ ~stopping

\* ------------------------------------------------------------------------
\* C11

KnownMethods ==
    {"initialize", "notifications/initialized", "tools/list", "tools/call",
     "ping", "shutdown"}

IsUnknownMethod(m) == m.kind = "object" /\ m.method \notin KnownMethods

\* C11: a message whose method is none of the six known ones gets, when its id
\* is not null, exactly one error reply with code -32601 and that id, and
\* nothing at all when its id is null or absent; notifications/initialized is
\* never answered, whatever its id.
C11_UnknownMethod ==
    /\ IsUnknownMethod(message) /\ message.id # JNull =>
          /\ done \in {"handling", "returned", "send_failed", "cancelled"}
          /\ nposts = 0
          /\ done = "handling" => /\ nsent = 0
                                  /\ sending.reply.kind = "error"
                                  /\ sending.reply.code = -32601
                                  /\ sending.reply.id = message.id
          /\ done = "returned" => /\ nsent = 1
                                  /\ lastSent.kind = "error"
                                  /\ lastSent.code = -32601
                                  /\ lastSent.id = message.id
    /\ IsUnknownMethod(message) /\ message.id = JNull =>
          done = "returned" /\ nsent = 0 /\ nposts = 0 /\ sending = NoSend
    /\ message.kind = "object" /\ message.method = "notifications/initialized" =>
          done = "returned" /\ nsent = 0 /\ nposts = 0 /\ sending = NoSend

\* an unknown method with a string id has been answered, and so has nothing
\* else on that frame
C11_Witness ==
    /\ IsUnknownMethod(message)
    /\ message.id = JStr(<<"a">>)
    /\ done = "returned"
    /\ nsent = 1
    /\ lastSent.code = -32601

\* ------------------------------------------------------------------------
\* C12

IsShutdown(m) == m.kind = "object" /\ m.method = "shutdown"

\* the shutdown message has been answered
ShutdownDone == IsShutdown(message) /\ done = "returned"

\* reading the shutdown message leaves the flag alone and starts the reply
ShutdownReplyFirst ==
    pc = "recv" /\ IsShutdown(message') =>
        /\ stopping' = stopping
        /\ pc' = "sending"
        /\ sending'.reply = ResultReply(message'.id, [empty |-> TRUE])
        /\ nsent' = 0

\* the flag is set in the step that completes the reply
ShutdownThenStop ==
    IsShutdown(message) /\ done = "handling" /\ done' = "returned" =>
        /\ lastSent' = ResultReply(message.id, [empty |-> TRUE])
        /\ nsent' = 1
        /\ stopping'

\* once the flag is set no wait for a frame and no connection attempt begins
NoReadNoConnectWhenStopping ==
    stopping =>
        /\ stopping'
        /\ pc' = "recv" => pc = "recv"
        /\ pc' = "connecting" => pc = "connecting"

\* C12: on a shutdown message the bridge first sends the reply with an empty
\* result and the inbound id and then sets the stop flag; after that no frame
\* is read on that session, no connection attempt is made, and run() ends.
C12_ShutdownStops ==
    /\ [](ShutdownDone => stopping /\ pc = "session_loop" /\ nposts = 0)
    /\ [][ShutdownReplyFirst /\ ShutdownThenStop /\ NoReadNoConnectWhenStopping]_vars
    /\ (ShutdownDone ~> pc \in {"returned", "cancelled"})

\* a shutdown request that arrived while the flag was clear has been answered
C12_Witness ==
    /\ ShutdownDone
    /\ message.id = JNum(1)
    /\ lastSent = ResultReply(JNum(1), [empty |-> TRUE])
    /\ afterStop = 0
    /\ stopping

\* ------------------------------------------------------------------------
\* C13

\* the four waits the claim names
NamedSuspensions == {"connecting", "recv", "webhook", "sleeping"}

\* the step in which the cancellation is delivered
CancellationDelivered == cancelled' /\ ~cancelled

\* C13: cancelling run() while it is suspended (connecting, waiting for a frame,
\* waiting on the webhook, sleeping in backoff, or any other wait) ends run()
\* with the cancellation: no backoff wait and no connection attempt follows,
\* and the HTTP client is released.
C13_CancellationPropagates ==
    /\ [](/\ NamedSuspensions \subseteq Awaits
          /\ pc \in Awaits => ENABLED Cancel)
    /\ [](cancelled => /\ pc = "cancelled"
                       /\ http_client = "closed"
                       /\ ~ws_open
                       /\ inflight = 0)
    /\ [][/\ CancellationDelivered => /\ pc \in Awaits
                                      /\ pc' = "cancelled"
                                      /\ UNCHANGED <<waited, backoff, connects, frames,
                                                     nsent, stopping>>
          /\ cancelled => UNCHANGED <<pc, http_client, ws_open, waited, backoff, connects,
                                      frames, nsent, nposts, inflight>>]_vars

\* run() was cancelled while it waited for the webhook's answer
C13_Witness ==
    /\ cancelled
    /\ pc = "cancelled"
    /\ done = "cancelled"
    /\ nposts = 1
    /\ response = NoResponse
    /\ http_client = "closed"

\* ------------------------------------------------------------------------
\* C14

\* C14: within one session the replies leave in the order in which their
\* requests were read: the frame ordinals in the session's outbox increase,
\* and no reply of an earlier frame is pending when a frame is awaited.
C14_RepliesInOrder ==
    /\ \A i, j \in DOMAIN outbox : i < j => outbox[i] < outbox[j]
    /\ \A i \in DOMAIN outbox : outbox[i] <= frames
    /\ pc = "recv" => sending = NoSend /\ posted = NoPayload
    /\ pc \in {"sending", "webhook"} => \A i \in DOMAIN outbox : outbox[i] < frames

\* two requests of one session have both been answered
C14_Witness == Len(outbox) = 2 /\ outbox[1] = 1 /\ outbox[2] = 2 /\ ws_open

\* ------------------------------------------------------------------------
\* C15

\* a frame is taken from the connection
FrameRead == frames' = frames + 1

\* a connection attempt begins or a session starts
SessionStarts ==
    \/ pc # "connecting" /\ pc' = "connecting"
    \/ connects' = connects + 1

\* C15: at most one webhook request is in flight at any time; a frame is read
\* only when the previous frame's tool call, its webhook round trip and its
\* reply are over; no connection attempt or session starts while a request is
\* pending.
C15_OneWebhookInFlight ==
    /\ [](/\ inflight \in {0, 1}
          /\ inflight = 1 <=> pc = "webhook"
          /\ inflight = 1 => posted # NoPayload
          /\ inflight = 1 => ws_open /\ done = "handling" /\ sending = NoSend)
    /\ [][/\ FrameRead => inflight = 0 /\ sending = NoSend /\ done # "handling"
          /\ SessionStarts => inflight = 0 /\ inflight' = 0]_vars

\* a webhook request is pending for the second frame of a session
C15_Witness == inflight = 1 /\ pc = "webhook" /\ frames = 2 /\ Len(outbox) = 1

\* ------------------------------------------------------------------------
\* C16

RunEnded == pc \in {"returned", "cancelled"}

\* what a validated call gets when _post_to_webhook finds no client
NotReadyReply(f) == SendStep(ToolsCallReply(f, ClientNotReady), FALSE)

\* C16: the HTTP client is acquired when run() starts, before the first
\* connection attempt, and released on every way out of run(); every webhook
\* post happens while it is held; a post attempted with no client fails with
\* the client-not-ready failure (error -32001) and sends no request.
C16_ClientHeldWhileRunning ==
    /\ pc = "start" => http_client = "none" /\ connects = 0 /\ waited = <<>>
    /\ pc # "start" /\ ~RunEnded => http_client = "open"
    /\ RunEnded => http_client = "closed" /\ inflight = 0
    /\ inflight = 1 \/ nposts = 1 \/ response # NoResponse => http_client # "none"
    /\ pc = "webhook" => http_client = "open"
    /\ IsValidated(message) =>
          /\ Dispatch(message).act = "post"
          /\ HandleFrame(message, "open") = Dispatch(message)
          /\ HandleFrame(message, "none") = NotReadyReply(message)
          /\ NotReadyReply(message).payload = NoPayload
          /\ NotReadyReply(message).reply.kind = "error"
          /\ NotReadyReply(message).reply.code = -32001
          /\ NotReadyReply(message).reply.id = message.id

\* a webhook post was made and answered while the client was held, and the
\* client was released when run() was cancelled during the reply
C16_Witness ==
    /\ pc = "cancelled"
    /\ http_client = "closed"
    /\ IsValidated(message)
    /\ nposts = 1
    /\ response # NoResponse

\* ------------------------------------------------------------------------
\* C17

\* the call carried a callId (null stands for a missing one)
SuppliedCallId(m) == ParamsOf(m).callId # JNull

\* C17: the result of a successful tools/call carries a callId equal to
\* params.callId whenever the call supplied one, whatever its value, and no
\* callId when it supplied none; the reply's id is the JSON-RPC id.
C17_CallIdPassedThrough ==
    IsValidated(message) /\ done = "returned" /\ lastSent.kind = "result" =>
        /\ lastSent.id = message.id
        /\ lastSent.body.callId = IF SuppliedCallId(message)
                                  THEN ParamsOf(message).callId
                                  ELSE JAbsent

\* ------------------------------------------------------------------------
\* C18

\* the blank line put between two outputs
Separator == <<"\n", "\n">>

\* an element that is an object with a string in its output field
HasOutput(item) == IsMapping(item) /\ IsStr(item.output)
\* the same, the string having something other than white space in it
HasNonBlankOutput(item) == HasOutput(item) /\ Strip(item.output.s) # <<>>

\* the display text as stated: a non-empty message, the outputs as they are
StatedDisplayText(data) ==
    IF IsMapping(data)
    THEN IF IsStr(data.message) /\ data.message.s # <<>>
         THEN Text(data.message.s)
         ELSE Dumps(data)
    ELSE IF data.t = "list"
         THEN LET kept == SelectSeq(data.items, HasOutput)
                  outs == [i \in 1..Len(kept) |-> kept[i].output.s]
              IN  IF Len(kept) > 0 THEN Text(Join(Separator, outs)) ELSE Dumps(data)
         ELSE StrOf(data)

\* the display text with white space taken into account: a message that is
\* not blank (given as it is), the outputs that are not blank, each trimmed
TrimmedDisplayText(data) ==
    IF IsMapping(data)
    THEN IF IsStr(data.message) /\ Strip(data.message.s) # <<>>
         THEN Text(data.message.s)
         ELSE Dumps(data)
    ELSE IF data.t = "list"
         THEN LET kept == SelectSeq(data.items, HasNonBlankOutput)
                  outs == [i \in 1..Len(kept) |-> Strip(kept[i].output.s)]
              IN  IF Len(kept) > 0 THEN Text(Join(Separator, outs)) ELSE Dumps(data)
         ELSE StrOf(data)

\* a webhook answer with status 200 has been turned into a sent result
ResultOfResponse ==
    /\ done = "returned"
    /\ lastSent.kind = "result"
    /\ response.kind = "response"

\* C18 as stated: the display text is the message field when it is a
\* non-empty string, else the serialized object; for an array the output
\* strings of its elements in order joined by the separator, else the
\* serialized array; for any other value its string form.
C18_DisplayTextAsStated ==
    ResultOfResponse => lastSent.body.text = StatedDisplayText(response.body)

\* C18 amended: the message field is used when it is a string that is not
\* blank; the outputs used are the non-blank ones, each trimmed of white space
\* at both ends, joined by a blank line; the rest as stated.
C18_DisplayTextTrimmed ==
    /\ ResultOfResponse => lastSent.body.text = TrimmedDisplayText(response.body)
    /\ pc = "sending" /\ response.kind = "response" /\ sending.reply.kind = "result" =>
          sending.reply.body.text = TrimmedDisplayText(response.body)

\* an array with a number among its outputs and an output ending in a space
\* has been formatted
C18_Witness ==
    /\ ResultOfResponse
    /\ response.body.t = "list"
    /\ Len(response.body.items) = 3
    /\ lastSent.body.text = Text(<<"a", "\n", "\n", "b">>)

\* ------------------------------------------------------------------------
\* C19

\* a webhook request leaves in this step
RequestMade == inflight' > inflight

\* the webhook's answer to the request of the frame at hand is known
RequestEnded == response # NoResponse

\* C19: a webhook request is made only in handling a tools/call that passed
\* the three checks, once for that message: no other method, no malformed
\* frame and no rejected call makes one, and after the request has ended,
\* failed or not, none is made again for that message.
C19_WebhookOnlyForValidCall ==
    /\ [](/\ nposts \in {0, 1}
          /\ nposts = 1 => IsValidated(message)
          /\ inflight = 1 => IsValidated(message) /\ nposts = 1 /\ ~RequestEnded
          /\ ~IsValidated(message) => posted = NoPayload /\ ~RequestEnded
          /\ RequestEnded => nposts = 1 /\ inflight = 0 /\ pc # "webhook")
    /\ [][/\ RequestMade => FrameRead /\ IsValidated(message') /\ inflight = 0
          /\ RequestEnded => ~RequestMade /\ nposts' <= nposts]_vars

\* the webhook request of a validated call has failed and the error reply is
\* on its way
C19_Witness ==
    /\ IsValidated(message)
    /\ nposts = 1
    /\ response.kind = "exception"
    /\ pc = "sending"
    /\ sending.reply.code = -32001

\* ------------------------------------------------------------------------
\* C20

\* the reply of the frame being handled goes out
ReplyCompletes == done = "handling" /\ pc = "sending" /\ pc' = "session_loop"

\* C20: the stopping flag is never cleared and a stop() after the first changes
\* nothing; once it is set at most one more frame is read and dispatched in
\* the rest of run(), and only one whose receive was pending when the stop
\* was requested; that frame, and one being handled when the stop came, is
\* handled to its end, reply included.
C20_AtMostOneFrameAfterStop ==
    /\ [](/\ afterStop \in {0, 1}
          /\ afterStop = 1 => stopping
          /\ stopping /\ pc = "recv" => afterStop = 0)
    /\ [][/\ stopping => stopping'
          /\ stopping /\ Stop => UNCHANGED vars
          /\ stopping /\ pc' = "recv" => pc = "recv"
          /\ stopping /\ FrameRead => /\ pc = "recv"
                                      /\ afterStop = 0
                                      /\ afterStop' = 1
                                      /\ done' # "none"
          /\ stopping /\ ReplyCompletes => /\ done' = "returned"
                                           /\ nsent' = 1
                                           /\ lastSent' = sending.reply
                                           /\ outbox' = Append(outbox, frames)]_vars

\* a tools/call read after the stop was requested has been taken through the
\* webhook round trip and answered
C20_Witness ==
    /\ stopping
    /\ afterStop = 1
    /\ IsValidated(message)
    /\ response.kind = "response"
    /\ done = "returned"
    /\ nsent = 1
    /\ lastSent.kind = "result"

====
